---- MODULE Spec2Model ----
(***************************************************************************)
(* A model of the spacetime_math crate: Scalar arithmetic, Vec2, Vec3,     *)
(* Quat, the Axes constructors of conventions.rs and the crate's feature   *)
(* selection.                                                              *)
(*                                                                         *)
(* Scalar is an IEEE-754 binary floating-point number.  The model keeps    *)
(* the IEEE semantics (round to nearest, ties to even, gradual underflow,  *)
(* overflow to infinity, NaN) on a format of MantBits significand bits,    *)
(* ExpBelow binades below 1.0 and ExpAbove binades from 1.0 upwards.       *)
(* A finite Scalar is the integer count of quanta (the smallest positive   *)
(* subnormal) it holds; 1.0 is One quanta.  The sign of zero is not kept:  *)
(* Rust's == on floats does not tell -0.0 from 0.0.                        *)
(***************************************************************************)
EXTENDS Integers, Sequences, FiniteSets, TLC

VARIABLES op, args, ret

vars == <<op, args, ret>>

\* ------------------------------------------------------------ bounds
MantBits == 9
ExpBelow == 12
ExpAbove == 4

\* ------------------------------------------------------------ Scalar
RECURSIVE Pow2Rec(_)
Pow2Rec(n) == IF n <= 0 THEN 1 ELSE 2 * Pow2Rec(n - 1)
Pow2Table == [n \in 0..30 |-> Pow2Rec(n)]
Pow2(n) == IF n <= 0 THEN 1 ELSE Pow2Table[n]

FracBits == MantBits - 1 + ExpBelow
One == Pow2(FracBits)
\* The distance from 1.0 to the next Scalar (f32::EPSILON, f64::EPSILON).
EPSILON == Pow2(ExpBelow)
MaxFinite == (Pow2(MantBits) - 1) * Pow2(ExpBelow + ExpAbove)
MinNormal == Pow2(MantBits - 1)
Inf == Pow2(MantBits + ExpBelow + ExpAbove)
NegInf == 0 - Inf
NaN == Inf + 1

IsFinite(x) == x # NaN /\ x # Inf /\ x # NegInf
Abs(x) == IF x < 0 THEN 0 - x ELSE x
Sign(x) == IF x < 0 THEN 0 - 1 ELSE 1
Max(a, b) == IF a >= b THEN a ELSE b

\* floor(log2(n)), n >= 1.
RECURSIVE FloorLog2(_)
FloorLog2(n) == IF n < 2 THEN 0 ELSE 1 + FloorLog2(n \div 2)

\* The least j >= 0 with a * 2^j >= d (0 < a).
RECURSIVE Lift(_, _)
Lift(a, d) == IF a >= d THEN 0 ELSE 1 + Lift(2 * a, d)

\* floor(log2(a / d)), a > 0, d > 0.
FloorLog2Ratio(a, d) == IF a >= d THEN FloorLog2(a \div d) ELSE 0 - Lift(a, d)

\* The number of low zero bits dropped so that n >= 0 fits MantBits bits:
\* a finite Scalar n is (n \div 2^Shift(n)) * 2^Shift(n).
Shift(n) == IF n < Pow2(MantBits) THEN 0 ELSE FloorLog2(n) - MantBits + 1
Mant(n) == n \div Pow2(Shift(n))

\* a / d rounded to an integer, ties to even (a >= 0, d > 0).
RoundHalfEven(a, d) ==
    LET q == a \div d
        r == a % d
    IN  IF 2 * r < d THEN q
        ELSE IF 2 * r > d THEN q + 1
        ELSE IF q % 2 = 0 THEN q ELSE q + 1

\* m * 2^k quanta (m <= 2^MantBits), or infinity when that overflows.
Pack(m, k) ==
    IF k > ExpBelow + ExpAbove THEN Inf
    ELSE IF m * Pow2(k) > MaxFinite THEN Inf
    ELSE m * Pow2(k)

\* The Scalar nearest to (a / d) * 2^e quanta (a >= 0, d > 0): round to
\* nearest, ties to even, on MantBits significant bits; gradual underflow.
RoundScaled(a, d, e) ==
    IF a = 0 THEN 0
    ELSE LET lg == FloorLog2Ratio(a, d) + e
         IN  IF lg < 0 - 1 THEN 0
             ELSE LET k == Max(0, lg - MantBits + 1)
                      s == e - k
                      m == IF s >= 0 THEN RoundHalfEven(a * Pow2(s), d)
                           ELSE RoundHalfEven(a, d * Pow2(0 - s))
                  IN  Pack(m, k)

RECURSIVE IsqrtIn(_, _, _)
IsqrtIn(m, lo, hi) ==
    IF lo >= hi THEN lo
    ELSE LET mid == (lo + hi + 1) \div 2
         IN  IF mid * mid <= m THEN IsqrtIn(m, mid, hi) ELSE IsqrtIn(m, lo, mid - 1)

\* floor(sqrt(m)), 0 <= m < 4^(MantBits + 1).
Isqrt(m) == IsqrtIn(m, 0, Pow2(MantBits + 1))

\* The integer nearest to sqrt(m): sqrt(m) is never half way between two.
RoundSqrtInt(m) ==
    LET q == Isqrt(m)
    IN  IF m > q * q + q THEN q + 1 ELSE q

\* The Scalar nearest to sqrt(x) for a finite Scalar x > 0.  In quanta,
\* sqrt(x) is sqrt(x * One) = sqrt(m) * 2^h with m < 2^(MantBits + 1).
RoundSqrt(x) ==
    LET e0 == Shift(x) + FracBits
        m == IF e0 % 2 = 0 THEN Mant(x) ELSE 2 * Mant(x)
        h == e0 \div 2
        k == Max(0, FloorLog2(m) \div 2 + h - MantBits + 1)
    IN  Pack(RoundSqrtInt(m * Pow2(2 * (h - k))), k)

FNeg(x) == IF x = NaN THEN NaN ELSE 0 - x

FMul(x, y) ==
    IF x = NaN \/ y = NaN THEN NaN
    ELSE IF IsFinite(x) /\ IsFinite(y) THEN
        Sign(x) * Sign(y)
          * RoundScaled(Mant(Abs(x)) * Mant(Abs(y)), 1, Shift(Abs(x)) + Shift(Abs(y)) - FracBits)
    ELSE IF x = 0 \/ y = 0 THEN NaN
    ELSE Sign(x) * Sign(y) * Inf

FAdd(x, y) ==
    IF x = NaN \/ y = NaN THEN NaN
    ELSE IF IsFinite(x) /\ IsFinite(y) THEN Sign(x + y) * RoundScaled(Abs(x + y), 1, 0)
    ELSE IF IsFinite(x) THEN y
    ELSE IF IsFinite(y) THEN x
    ELSE IF x = y THEN x ELSE NaN

FSub(x, y) == FAdd(x, FNeg(y))

FDiv(x, y) ==
    IF x = NaN \/ y = NaN THEN NaN
    ELSE IF IsFinite(x) /\ IsFinite(y) THEN
        IF y = 0 THEN (IF x = 0 THEN NaN ELSE Sign(x) * Inf)
        ELSE Sign(x) * Sign(y)
               * RoundScaled(Mant(Abs(x)), Mant(Abs(y)), Shift(Abs(x)) - Shift(Abs(y)) + FracBits)
    ELSE IF IsFinite(y) THEN Sign(x) * Sign(y) * Inf
    ELSE IF IsFinite(x) THEN 0
    ELSE NaN

FSqrt(x) ==
    IF x = NaN \/ x < 0 THEN NaN
    ELSE IF x = Inf THEN Inf
    ELSE IF x = 0 THEN 0
    ELSE RoundSqrt(x)

\* <=, == and > on Scalar: every comparison with NaN is false.
FLe(x, y) == x # NaN /\ y # NaN /\ x <= y
FEq(x, y) == x # NaN /\ y # NaN /\ x = y
FGt(x, y) == x # NaN /\ y # NaN /\ x > y

\* ------------------------------------------------------------ Option
None == [some |-> FALSE]
Some(v) == [some |-> TRUE, val |-> v]

\* ------------------------------------------------------------ Vec3 (data)
Vec3_new(x, y, z) == [x |-> x, y |-> y, z |-> z]

\* ------------------------------------------------------------ Vec2
Vec2_new(x, y) == [x |-> x, y |-> y]
Vec2_ZERO == Vec2_new(0, 0)

Vec2_eq(a, b) == FEq(a.x, b.x) /\ FEq(a.y, b.y)

\* Vec2::extend_y inserting y in the Z slot.
extend_y_as_z(v, y) == Vec3_new(v.x, v.y, y)

extend_y(v, y) == Vec3_new(v.x, y, v.y)
extend_z(v, z) == Vec3_new(v.x, v.y, z)

Vec2_dot(a, b) == FAdd(FMul(a.x, b.x), FMul(a.y, b.y))
Vec2_length_squared(v) == FAdd(FMul(v.x, v.x), FMul(v.y, v.y))
Vec2_length(v) == FSqrt(Vec2_length_squared(v))

\* Vec2::normalize_or with < where the code has <=.
Vec2_normalize_or_strict(v, epsilon, fallback) ==
    LET len_sq == Vec2_length_squared(v)
        epsilon_sq == FMul(epsilon, epsilon)
    IN  IF len_sq # NaN /\ epsilon_sq # NaN /\ len_sq < epsilon_sq THEN fallback
        ELSE LET len == FSqrt(len_sq)
             IN  Vec2_new(FDiv(v.x, len), FDiv(v.y, len))

Vec2_normalize_or(v, epsilon, fallback) ==
    LET len_sq == Vec2_length_squared(v)
        epsilon_sq == FMul(epsilon, epsilon)
    IN  IF FLe(len_sq, epsilon_sq) THEN fallback
        ELSE LET len == FSqrt(len_sq)
             IN  Vec2_new(FDiv(v.x, len), FDiv(v.y, len))

Vec2_normalize_or_zero(v, epsilon) == Vec2_normalize_or(v, epsilon, Vec2_ZERO)

Vec2_try_normalize(v, epsilon) ==
    LET len_sq == Vec2_length_squared(v)
        epsilon_sq == FMul(epsilon, epsilon)
    IN  IF FLe(len_sq, epsilon_sq) THEN None
        ELSE LET len == FSqrt(len_sq)
             IN  Some(Vec2_new(FDiv(v.x, len), FDiv(v.y, len)))

\* ------------------------------------------------------------ Vec3
Vec3_ZERO == Vec3_new(0, 0, 0)

Vec3_eq(a, b) == FEq(a.x, b.x) /\ FEq(a.y, b.y) /\ FEq(a.z, b.z)

Vec3_dot(a, b) == FAdd(FAdd(FMul(a.x, b.x), FMul(a.y, b.y)), FMul(a.z, b.z))
Vec3_length_squared(v) == FAdd(FAdd(FMul(v.x, v.x), FMul(v.y, v.y)), FMul(v.z, v.z))
Vec3_length(v) == FSqrt(Vec3_length_squared(v))

cross(a, b) ==
    Vec3_new(FSub(FMul(a.y, b.z), FMul(a.z, b.y)),
             FSub(FMul(a.z, b.x), FMul(a.x, b.z)),
             FSub(FMul(a.x, b.y), FMul(a.y, b.x)))

Vec3_try_normalize(v, epsilon) ==
    LET len_sq == Vec3_length_squared(v)
        epsilon_sq == FMul(epsilon, epsilon)
    IN  IF FLe(len_sq, epsilon_sq) THEN None
        ELSE LET len == FSqrt(len_sq)
             IN  Some(Vec3_new(FDiv(v.x, len), FDiv(v.y, len), FDiv(v.z, len)))

\* ------------------------------------------------------------ Axes
Axes(up, forward, right) == [up |-> up, forward |-> forward, right |-> right]

Axes_eq(a, b) ==
    Vec3_eq(a.up, b.up) /\ Vec3_eq(a.forward, b.forward) /\ Vec3_eq(a.right, b.right)

\* Axes::try_right_handed with the operands of the second cross product
\* exchanged: forward is re-derived as right x up.
try_right_handed_forward_flipped(up0, forward0, epsilon) ==
    LET up == Vec3_try_normalize(up0, epsilon)
    IN  IF ~up.some THEN None
        ELSE LET forward == Vec3_try_normalize(forward0, epsilon)
             IN  IF ~forward.some THEN None
                 ELSE LET right == Vec3_try_normalize(cross(forward.val, up.val), epsilon)
                      IN  IF ~right.some THEN None
                          ELSE Some(Axes(up.val, cross(right.val, up.val), right.val))

\* Axes::try_right_handed without its last step: forward is the caller's,
\* normalized.
try_right_handed_keeping_forward(up0, forward0, epsilon) ==
    LET up == Vec3_try_normalize(up0, epsilon)
    IN  IF ~up.some THEN None
        ELSE LET forward == Vec3_try_normalize(forward0, epsilon)
             IN  IF ~forward.some THEN None
                 ELSE LET right == Vec3_try_normalize(cross(forward.val, up.val), epsilon)
                      IN  IF ~right.some THEN None
                          ELSE Some(Axes(up.val, forward.val, right.val))

\* Axes::try_right_handed with the third `?` missing: a cross product too
\* short to normalize is kept as right.
try_right_handed_unchecked_right(up0, forward0, epsilon) ==
    LET up == Vec3_try_normalize(up0, epsilon)
    IN  IF ~up.some THEN None
        ELSE LET forward == Vec3_try_normalize(forward0, epsilon)
             IN  IF ~forward.some THEN None
                 ELSE LET c == cross(forward.val, up.val)
                          n == Vec3_try_normalize(c, epsilon)
                          right == IF n.some THEN n.val ELSE c
                      IN  Some(Axes(up.val, cross(up.val, right), right))

try_right_handed(up0, forward0, epsilon) ==
    LET up == Vec3_try_normalize(up0, epsilon)
    IN  IF ~up.some THEN None
        ELSE LET forward == Vec3_try_normalize(forward0, epsilon)
             IN  IF ~forward.some THEN None
                 ELSE LET right == Vec3_try_normalize(cross(forward.val, up.val), epsilon)
                      IN  IF ~right.some THEN None
                          ELSE Some(Axes(up.val, cross(up.val, right.val), right.val))

\* Axes::try_left_handed with the third `?` missing.
try_left_handed_unchecked_right(up0, forward0, epsilon) ==
    LET up == Vec3_try_normalize(up0, epsilon)
    IN  IF ~up.some THEN None
        ELSE LET forward == Vec3_try_normalize(forward0, epsilon)
             IN  IF ~forward.some THEN None
                 ELSE LET c == cross(up.val, forward.val)
                          n == Vec3_try_normalize(c, epsilon)
                          right == IF n.some THEN n.val ELSE c
                      IN  Some(Axes(up.val, cross(right, up.val), right))

\* Axes::try_left_handed with only the first cross product's operands in
\* left-handed order: forward is re-derived as in try_right_handed.
try_left_handed_forward_flipped(up0, forward0, epsilon) ==
    LET up == Vec3_try_normalize(up0, epsilon)
    IN  IF ~up.some THEN None
        ELSE LET forward == Vec3_try_normalize(forward0, epsilon)
             IN  IF ~forward.some THEN None
                 ELSE LET right == Vec3_try_normalize(cross(up.val, forward.val), epsilon)
                      IN  IF ~right.some THEN None
                          ELSE Some(Axes(up.val, cross(up.val, right.val), right.val))

\* Axes::try_left_handed with the operand order of try_right_handed.
try_left_handed_operands_swapped(up0, forward0, epsilon) ==
    try_right_handed(up0, forward0, epsilon)

try_left_handed(up0, forward0, epsilon) ==
    LET up == Vec3_try_normalize(up0, epsilon)
    IN  IF ~up.some THEN None
        ELSE LET forward == Vec3_try_normalize(forward0, epsilon)
             IN  IF ~forward.some THEN None
                 ELSE LET right == Vec3_try_normalize(cross(up.val, forward.val), epsilon)
                      IN  IF ~right.some THEN None
                          ELSE Some(Axes(up.val, cross(right.val, up.val), right.val))

Y_UP_RIGHT_HANDED_FWD_NEG_Z ==
    Axes(Vec3_new(0, One, 0), Vec3_new(0, 0, 0 - One), Vec3_new(One, 0, 0))
Y_UP_RIGHT_HANDED_FWD_POS_Z ==
    Axes(Vec3_new(0, One, 0), Vec3_new(0, 0, One), Vec3_new(0 - One, 0, 0))
Y_UP_LEFT_HANDED_FWD_POS_Z ==
    Axes(Vec3_new(0, One, 0), Vec3_new(0, 0, One), Vec3_new(One, 0, 0))
Z_UP_RIGHT_HANDED_FWD_POS_Y ==
    Axes(Vec3_new(0, 0, One), Vec3_new(0, One, 0), Vec3_new(One, 0, 0))
\* Z_UP_LEFT_HANDED_FWD_POS_X with right along +X, as in the other presets.
Z_UP_LEFT_HANDED_FWD_POS_X_right_x ==
    Axes(Vec3_new(0, 0, One), Vec3_new(One, 0, 0), Vec3_new(One, 0, 0))

Z_UP_LEFT_HANDED_FWD_POS_X ==
    Axes(Vec3_new(0, 0, One), Vec3_new(One, 0, 0), Vec3_new(0, One, 0))

\* The presets by name, each with the handedness its name states.
Presets ==
    [Y_UP_RIGHT_HANDED_FWD_NEG_Z |-> [axes |-> Y_UP_RIGHT_HANDED_FWD_NEG_Z, hand |-> "right"],
     Y_UP_RIGHT_HANDED_FWD_POS_Z |-> [axes |-> Y_UP_RIGHT_HANDED_FWD_POS_Z, hand |-> "right"],
     Y_UP_LEFT_HANDED_FWD_POS_Z |-> [axes |-> Y_UP_LEFT_HANDED_FWD_POS_Z, hand |-> "left"],
     Z_UP_RIGHT_HANDED_FWD_POS_Y |-> [axes |-> Z_UP_RIGHT_HANDED_FWD_POS_Y, hand |-> "right"],
     Z_UP_LEFT_HANDED_FWD_POS_X |-> [axes |-> Z_UP_LEFT_HANDED_FWD_POS_X, hand |-> "left"]]

\* ------------------------------------------------------------ Quat
Quat_new(x, y, z, w) == [x |-> x, y |-> y, z |-> z, w |-> w]
Quat_IDENTITY == Quat_new(0, 0, 0, One)

\* nalgebra::Quaternion::new(w, i, j, k)
nalgebra_Quaternion_new(w, i, j, k) == [i |-> i, j |-> j, k |-> k, w |-> w]

\* nalgebra::UnitQuaternion::from_quaternion: the quaternion divided by its
\* norm, the square root of the sum of the squares of its coordinates.
nalgebra_from_quaternion(raw) ==
    LET norm == FSqrt(FAdd(FAdd(FAdd(FMul(raw.i, raw.i), FMul(raw.j, raw.j)),
                                FMul(raw.k, raw.k)), FMul(raw.w, raw.w)))
    IN  [i |-> FDiv(raw.i, norm), j |-> FDiv(raw.j, norm),
         k |-> FDiv(raw.k, norm), w |-> FDiv(raw.w, norm)]

\* impl From<Quat> for nalgebra::UnitQuaternion<Scalar>
Quat_into_nalgebra(q) == nalgebra_from_quaternion(nalgebra_Quaternion_new(q.w, q.x, q.y, q.z))

\* impl From<nalgebra::UnitQuaternion<Scalar>> for Quat (into_inner is the
\* stored quaternion)
Quat_from_nalgebra(uq) == [x |-> uq.i, y |-> uq.j, z |-> uq.k, w |-> uq.w]

\* glam::Quat::from_xyzw / glam::DQuat::from_xyzw
glam_from_xyzw(x, y, z, w) == [x |-> x, y |-> y, z |-> z, w |-> w]

\* impl From<Quat> for glam::Quat, for glam::DQuat
Quat_into_glam(q) == glam_from_xyzw(q.x, q.y, q.z, q.w)

\* impl From<glam::Quat> for Quat, From<glam::DQuat> for Quat
Quat_from_glam(g) == Quat_new(g.x, g.y, g.z, g.w)

\* ------------------------------------------------------------ features
Features == {"f32", "f64", "nalgebra", "glam", "serde"}

\* lib.rs: #[cfg(all(feature = "f32", feature = "f64"))] compile_error!
compile_error(features) ==
    IF "f32" \in features /\ "f64" \in features
    THEN {"Features 'f32' and 'f64' are mutually exclusive."}
    ELSE {}

\* scalar.rs: the widths `Scalar` is defined as.
\* scalar.rs with f32 as the default when f64 is not selected.
ScalarDefs_default_f32(features) == IF "f64" \in features THEN {"f64"} ELSE {"f32"}

ScalarDefs(features) == {w \in {"f64", "f32"} : w \in features}

\* scalar.rs: two `pub use ... as Scalar` in one module define the name twice.
ScalarErrors(defs) ==
    IF Cardinality(defs) > 1 THEN {"E0252: the name Scalar is defined multiple times"}
    ELSE {}

\* vec2.rs, vec3.rs, quat.rs: `use crate::Scalar`.
UseScalarErrors(defs) ==
    IF defs = {} THEN {"E0432: unresolved import crate::Scalar"} ELSE {}

\* The items the feature selection compiles in.
Items(features) ==
    {"Vec2", "Vec3", "Quat"}
      \cup (IF "nalgebra" \in features THEN {"nalgebra_impls"} ELSE {})
      \cup (IF "glam" \in features /\ "f32" \in features THEN {"glam_impls_f32"} ELSE {})
      \cup (IF "glam" \in features /\ "f64" \in features THEN {"glam_impls_f64"} ELSE {})
      \cup (IF "serde" \in features THEN {"serde_derive"} ELSE {})

\* ------------------------------------------------------------ inputs
\* Coordinates the Axes constructors are called with: the cardinal
\* directions of the presets and a length other than 1.
Coords3 == {0 - One, 0, One, 3 * One}
Vecs3 == {Vec3_new(x, y, z) : x \in Coords3, y \in Coords3, z \in Coords3}

\* k * v for k = n / 4, exact on the coordinates above.
Scaled(v, n) == Vec3_new((n * v.x) \div 4, (n * v.y) \div 4, (n * v.z) \div 4)

\* forward is any of the vectors above or a multiple of up by a factor that
\* is not a power of two.
Forwards(up) == Vecs3 \cup {Scaled(up, 3), Scaled(up, 0 - 3)}

Epsilons == {0, 8 * EPSILON, One \div 4, One}

\* Vec2 coordinates: also a subnormal and the largest finite Scalar.
Coords2 == {0 - 3 * One, 0 - One, 0, 3, One \div 4, One, 3 * One, MaxFinite}
Vecs2 == {Vec2_new(x, y) : x \in Coords2, y \in Coords2}
Epsilons2 == {0, 1, 8 * EPSILON, One \div 4, One}
Fallbacks == {Vec2_ZERO, Vec2_new(One, 0), Vec2_new(0 - One, 3 * One)}

QuatCoords == {0 - One, 0, One \div 2, One, 2 * One}
Quats == {Quat_new(x, y, z, w) : x \in QuatCoords, y \in QuatCoords,
                                  z \in QuatCoords, w \in QuatCoords}

\* ------------------------------------------------------------ calls
\* args holds the arguments of a call, op the operation that ran on them
\* ("init" before any ran) and ret what it returned.
AxesArgs ==
    UNION {[up : {up}, forward : Forwards(up), epsilon : Epsilons] : up \in Vecs3}
PresetArgs == [name : DOMAIN Presets]

InitAxes ==
    /\ op = "init"
    /\ args \in AxesArgs \cup PresetArgs
    /\ ret = <<>>

Call_try_right_handed ==
    /\ op = "init"
    /\ args \in AxesArgs
    /\ ret' = try_right_handed(args.up, args.forward, args.epsilon)
    /\ op' = "try_right_handed"
    /\ UNCHANGED args

Call_try_left_handed ==
    /\ op = "init"
    /\ args \in AxesArgs
    /\ ret' = try_left_handed(args.up, args.forward, args.epsilon)
    /\ op' = "try_left_handed"
    /\ UNCHANGED args

\* Reading one of the preset constants.
Read_preset ==
    /\ op = "init"
    /\ args \in PresetArgs
    /\ ret' = Presets[args.name].axes
    /\ op' = "preset"
    /\ UNCHANGED args

NextAxes == Call_try_right_handed \/ Call_try_left_handed \/ Read_preset

SpecAxes == InitAxes /\ [][NextAxes]_vars

NormalizeArgs == [v : Vecs2, epsilon : Epsilons2, fallback : Fallbacks]
ExtendArgs == [v : Vecs2, s : Coords2]

InitVec2 ==
    /\ op = "init"
    /\ args \in NormalizeArgs \cup ExtendArgs
    /\ ret = <<>>

Call_try_normalize ==
    /\ op = "init"
    /\ args \in NormalizeArgs
    /\ ret' = Vec2_try_normalize(args.v, args.epsilon)
    /\ op' = "try_normalize"
    /\ UNCHANGED args

Call_normalize_or ==
    /\ op = "init"
    /\ args \in NormalizeArgs
    /\ ret' = Vec2_normalize_or(args.v, args.epsilon, args.fallback)
    /\ op' = "normalize_or"
    /\ UNCHANGED args

Call_normalize_or_zero ==
    /\ op = "init"
    /\ args \in NormalizeArgs
    /\ ret' = Vec2_normalize_or_zero(args.v, args.epsilon)
    /\ op' = "normalize_or_zero"
    /\ UNCHANGED args

Call_extend_y ==
    /\ op = "init"
    /\ args \in ExtendArgs
    /\ ret' = extend_y(args.v, args.s)
    /\ op' = "extend_y"
    /\ UNCHANGED args

Call_extend_z ==
    /\ op = "init"
    /\ args \in ExtendArgs
    /\ ret' = extend_z(args.v, args.s)
    /\ op' = "extend_z"
    /\ UNCHANGED args

NextVec2 ==
    \/ Call_try_normalize
    \/ Call_normalize_or
    \/ Call_normalize_or_zero
    \/ Call_extend_y
    \/ Call_extend_z

SpecVec2 == InitVec2 /\ [][NextVec2]_vars

\* q.into() to the external type, then .into() back.
InitQuat ==
    /\ op = "init"
    /\ args \in [q : Quats]
    /\ ret = <<>>

Call_into_nalgebra ==
    /\ op = "init"
    /\ ret' = Quat_into_nalgebra(args.q)
    /\ op' = "into_nalgebra"
    /\ UNCHANGED args

Call_from_nalgebra ==
    /\ op = "into_nalgebra"
    /\ ret' = Quat_from_nalgebra(ret)
    /\ op' = "nalgebra_roundtrip"
    /\ UNCHANGED args

Call_into_glam ==
    /\ op = "init"
    /\ ret' = Quat_into_glam(args.q)
    /\ op' = "into_glam"
    /\ UNCHANGED args

Call_from_glam ==
    /\ op = "into_glam"
    /\ ret' = Quat_from_glam(ret)
    /\ op' = "glam_roundtrip"
    /\ UNCHANGED args

NextQuat ==
    \/ Call_into_nalgebra
    \/ Call_from_nalgebra
    \/ Call_into_glam
    \/ Call_from_glam

SpecQuat == InitQuat /\ [][NextQuat]_vars

\* ------------------------------------------------------------ the build
\* cargo build with a feature selection: lib.rs is expanded, then
\* scalar.rs, then the modules that import Scalar; the crate is built when
\* no error was reported.
InitBuild ==
    /\ op = "configured"
    /\ args \in [features : SUBSET Features]
    /\ ret = [errors |-> {}, scalar |-> {}, items |-> {}]

Expand_lib ==
    /\ op = "configured"
    /\ ret' = [ret EXCEPT !.errors = @ \cup compile_error(args.features)]
    /\ op' = "lib_expanded"
    /\ UNCHANGED args

Expand_scalar ==
    /\ op = "lib_expanded"
    /\ LET defs == ScalarDefs(args.features)
       IN  ret' = [ret EXCEPT !.scalar = defs, !.errors = @ \cup ScalarErrors(defs)]
    /\ op' = "scalar_expanded"
    /\ UNCHANGED args

Resolve ==
    /\ op = "scalar_expanded"
    /\ ret' = [ret EXCEPT !.items = Items(args.features),
                          !.errors = @ \cup UseScalarErrors(ret.scalar)]
    /\ op' = "resolved"
    /\ UNCHANGED args

Finish ==
    /\ op = "resolved"
    /\ op' = IF ret.errors = {} THEN "built" ELSE "build_failed"
    /\ UNCHANGED <<args, ret>>

NextBuild == Expand_lib \/ Expand_scalar \/ Resolve \/ Finish

SpecBuild == InitBuild /\ [][NextBuild]_vars

\* ------------------------------------------------------------ Axes claims
AxesCall == op \in {"try_right_handed", "try_left_handed"}

\* |x| <= tol for a Scalar x.
Within(x, tol) == IsFinite(x) /\ Abs(x) <= tol

\* A finite Scalar that is not subnormal.
IsNormal(x) == IsFinite(x) /\ Abs(x) >= MinNormal

\* What tests::assert_axes_orthonormal asserts, with == replaced by "within tol".
Orthonormal(axes, tol) ==
    /\ Within(Vec3_dot(axes.up, axes.forward), tol)
    /\ Within(Vec3_dot(axes.up, axes.right), tol)
    /\ Within(Vec3_dot(axes.forward, axes.right), tol)
    /\ Within(FSub(Vec3_length_squared(axes.up), One), tol)
    /\ Within(FSub(Vec3_length_squared(axes.forward), One), tol)
    /\ Within(FSub(Vec3_length_squared(axes.right), One), tol)

\* The squared length of the cross product of the two normalized inputs.
CrossLengthSquared(up, forward, epsilon) ==
    Vec3_length_squared(cross(Vec3_try_normalize(up, epsilon).val,
                              Vec3_try_normalize(forward, epsilon).val))

\* The squared lengths of both inputs are normal numbers (they neither
\* overflowed nor underflowed) and the normalized inputs are at least
\* asin(1/4) apart.
WellSeparated(up, forward) ==
    /\ IsNormal(Vec3_length_squared(up))
    /\ IsNormal(Vec3_length_squared(forward))
    /\ FLe(One \div 16, CrossLengthSquared(up, forward, 0))

\* C1, as stated: whenever a constructor returns a value, the three dot
\* products of the returned axes are 0 and each axis has length 1.
C1_ExactlyOrthonormal ==
    (AxesCall /\ ret.some) =>
        /\ Orthonormal(ret.val, 0)
        /\ Vec3_length(ret.val.up) = One
        /\ Vec3_length(ret.val.forward) = One
        /\ Vec3_length(ret.val.right) = One

\* C1, amended: whenever a constructor returns a value for inputs whose
\* squared lengths are normal numbers and whose normalized cross product
\* has squared length at least 1/16, the three dot products are within
\* 16 * EPSILON of 0 and the three squared lengths within 16 * EPSILON of 1.
C1_OrthonormalWithinRounding ==
    (AxesCall /\ ret.some /\ WellSeparated(args.up, args.forward)) =>
        Orthonormal(ret.val, 16 * EPSILON)

\* C1 witness: a value returned for an up of length other than 1 and a
\* forward not perpendicular to it, orthonormal within rounding but not exactly.
C1_Witness ==
    /\ op = "try_right_handed"
    /\ ret.some
    /\ WellSeparated(args.up, args.forward)
    /\ Vec3_length_squared(args.up) # One
    /\ Vec3_dot(args.up, args.forward) # 0
    /\ ~Orthonormal(ret.val, 0)

\* The three epsilon-gated normalizations of the constructors.
Degenerate(up, forward, epsilon) ==
    \/ FLe(Vec3_length_squared(up), FMul(epsilon, epsilon))
    \/ FLe(Vec3_length_squared(forward), FMul(epsilon, epsilon))
    \/ FLe(CrossLengthSquared(up, forward, epsilon), FMul(epsilon, epsilon))

\* C2: a constructor returns None when the squared length of up, of
\* forward, or of the cross product of the two normalized inputs is
\* <= epsilon^2, and Some(Axes) in every other case.
C2_NoneIffDegenerate ==
    AxesCall =>
        /\ ret.some = ~Degenerate(args.up, args.forward, args.epsilon)
        /\ ret.some => DOMAIN ret.val = {"up", "forward", "right"}

\* C2 witness: None returned for two inputs that are long enough and not
\* parallel, but too nearly parallel for epsilon.
C2_Witness ==
    /\ op = "try_left_handed"
    /\ ~ret.some
    /\ ~FLe(Vec3_length_squared(args.up), FMul(args.epsilon, args.epsilon))
    /\ ~FLe(Vec3_length_squared(args.forward), FMul(args.epsilon, args.epsilon))
    /\ CrossLengthSquared(args.up, args.forward, args.epsilon) # 0

\* The constructor of the preset's handedness was called with the preset's
\* own up and forward.
PresetCall(preset) ==
    /\ op = (IF preset.hand = "right" THEN "try_right_handed" ELSE "try_left_handed")
    /\ args.up = preset.axes.up
    /\ args.forward = preset.axes.forward

\* C4, as stated: the constructor of a preset's handedness, called with the
\* preset's up and forward, returns the preset (equal up, forward and
\* right), whatever the epsilon.
C4_ConstructorReproducesPresetAnyEpsilon ==
    \A name \in DOMAIN Presets :
        PresetCall(Presets[name]) =>
            (ret.some /\ Axes_eq(ret.val, Presets[name].axes))

\* C4, amended: the constructor of a preset's handedness, called with the
\* preset's up and forward and an epsilon with 0 <= epsilon < 1, returns
\* the preset: equal up, forward and right.
C4_ConstructorReproducesPreset ==
    \A name \in DOMAIN Presets :
        (PresetCall(Presets[name]) /\ 0 <= args.epsilon /\ args.epsilon < One)
            => (ret.some /\ Axes_eq(ret.val, Presets[name].axes))

\* C4 witness: try_left_handed called with the up and forward of
\* Z_UP_LEFT_HANDED_FWD_POS_X returned a value.
C4_Witness ==
    /\ op = "try_left_handed"
    /\ args.up = Z_UP_LEFT_HANDED_FWD_POS_X.up
    /\ args.forward = Z_UP_LEFT_HANDED_FWD_POS_X.forward
    /\ args.epsilon = 8 * EPSILON
    /\ ret.some

\* forward = k * up for a scalar k, decided exactly on quarter units.
Quarters(c) == c \div (One \div 4)
Parallel(up, forward) ==
    /\ Quarters(up.x) * Quarters(forward.y) = Quarters(up.y) * Quarters(forward.x)
    /\ Quarters(up.x) * Quarters(forward.z) = Quarters(up.z) * Quarters(forward.x)
    /\ Quarters(up.y) * Quarters(forward.z) = Quarters(up.z) * Quarters(forward.y)
    /\ (up = Vec3_ZERO => forward = Vec3_ZERO)

\* C5, as stated: for forward = k * up, both constructors return None for
\* every epsilon >= 0.
C5_ParallelIsNone ==
    (AxesCall /\ Parallel(args.up, args.forward)) => ~ret.some

\* C5, amended: for forward = k * up, both constructors return None for
\* every epsilon >= 8 * EPSILON, and for every epsilon >= 0 when k = 0.
C5_ParallelIsNoneAboveRounding ==
    (/\ AxesCall
     /\ Parallel(args.up, args.forward)
     /\ (args.epsilon >= 8 * EPSILON \/ args.forward = Vec3_ZERO))
    => ~ret.some

\* C5 witness: None returned for a forward that is a multiple of up whose
\* normalized cross product with up is not 0, only below epsilon.
C5_Witness ==
    /\ AxesCall
    /\ Parallel(args.up, args.forward)
    /\ args.up # Vec3_ZERO
    /\ args.forward # Vec3_ZERO
    /\ args.epsilon = 8 * EPSILON
    /\ ~ret.some
    /\ CrossLengthSquared(args.up, args.forward, 0) # 0

\* C8: each of the five preset constants is exactly orthonormal: the three
\* dot products are 0 and the three squared lengths are 1.
C8_PresetsOrthonormal ==
    op = "preset" => Orthonormal(ret, 0)

\* C8 witness: the preset with a negative right axis was read.
C8_Witness ==
    /\ op = "preset"
    /\ args.name = "Y_UP_RIGHT_HANDED_FWD_POS_Z"
    /\ ret.right.x = 0 - One

\* ------------------------------------------------------------ Vec2 claims
\* try_normalize returned None exactly when length_squared(v) <= epsilon^2,
\* and otherwise v divided componentwise by length(v).
TryNormalizeResult ==
    LET len_sq == Vec2_length_squared(args.v)
        len == Vec2_length(args.v)
    IN  /\ ret.some = ~FLe(len_sq, FMul(args.epsilon, args.epsilon))
        /\ ret.some => ret.val = Vec2_new(FDiv(args.v.x, len), FDiv(args.v.y, len))

\* C3: try_normalize(v, eps) returns None iff length_squared(v) <= eps^2,
\* otherwise v divided componentwise by length(v), which has length 1 (read
\* with the tolerance of tests::vec2_normalize_produces_unit_length_for_non_zero,
\* here 4 * EPSILON) and dot(n, v) > 0.
C3_NormalizedIsUnit ==
    op = "try_normalize" =>
        /\ TryNormalizeResult
        /\ ret.some => /\ Within(FSub(Vec2_length(ret.val), One), 4 * EPSILON)
                       /\ FGt(Vec2_dot(ret.val, args.v), 0)

\* C6: normalize_or returns fallback when try_normalize returns None and
\* the vector try_normalize returns otherwise; normalize_or_zero is
\* normalize_or with ZERO; ZERO gives the fallback for every epsilon.
C6_NormalizeOrFollowsTryNormalize ==
    /\ op = "normalize_or" =>
          LET t == Vec2_try_normalize(args.v, args.epsilon)
          IN  /\ ~t.some => ret = args.fallback
              /\ t.some => ret = t.val
              /\ args.v = Vec2_ZERO => ret = args.fallback
    /\ op = "normalize_or_zero" =>
          /\ ret = Vec2_normalize_or(args.v, args.epsilon, Vec2_ZERO)
          /\ args.v = Vec2_ZERO => ret = Vec2_ZERO

\* C6 witness: normalize_or(ZERO, 0, fallback) returned a fallback other
\* than ZERO.
C6_Witness ==
    /\ op = "normalize_or"
    /\ args.v = Vec2_ZERO
    /\ args.epsilon = 0
    /\ args.fallback # Vec2_ZERO
    /\ ret = args.fallback

\* C9: extend_z(v, z) is (v.x, v.y, z) and extend_y(v, y) is (v.x, y, v.y),
\* so the XY (resp. XZ) coordinates of the result are v again.
C9_ExtendRoundTrip ==
    /\ op = "extend_z" =>
          /\ ret.z = args.s
          /\ Vec2_new(ret.x, ret.y) = args.v
    /\ op = "extend_y" =>
          /\ ret.y = args.s
          /\ Vec2_new(ret.x, ret.z) = args.v

\* C9 witness: extend_y on three different coordinates.
C9_Witness ==
    /\ op = "extend_y"
    /\ args.v.x # args.v.y
    /\ args.s # args.v.x
    /\ args.s # args.v.y
    /\ ret.z = args.v.y

\* ------------------------------------------------------------ Quat claims
\* C7: a finite Quat, unit length or not, converted to the external
\* quaternion type and back is the same Quat.
C7_RoundTripExact ==
    op \in {"nalgebra_roundtrip", "glam_roundtrip"} => ret = args.q

\* ------------------------------------------------------------ build claims
Widths == {"f32", "f64"}

\* C10: with exactly one of f32 and f64 selected the crate builds with
\* Scalar that width; with both or neither the build ends in an error.
C10_OneWidthOrBuildError ==
    LET selected == args.features \cap Widths
    IN  /\ op = "built" => (Cardinality(selected) = 1 /\ ret.scalar = selected)
        /\ op = "build_failed" => (Cardinality(selected) # 1 /\ ret.errors # {})

\* C10 witness: the build failed with neither width selected.
C10_Witness ==
    /\ op = "build_failed"
    /\ args.features \cap Widths = {}

\* ------------------------------------------------------------ Axes claims, continued
\* The componentwise negation of a vector.
Vec3_neg(v) == Vec3_new(FNeg(v.x), FNeg(v.y), FNeg(v.z))

\* C11: try_left_handed(up, forward, eps) returns a value iff
\* try_right_handed(up, forward, eps) does, and then the two results have
\* equal up, equal forward, and right vectors that are negations of each other.
C11_LeftMirrorsRight ==
    op = "try_left_handed" =>
        LET r == try_right_handed(args.up, args.forward, args.epsilon)
        IN  /\ ret.some = r.some
            /\ ret.some => /\ Vec3_eq(ret.val.up, r.val.up)
                           /\ Vec3_eq(ret.val.forward, r.val.forward)
                           /\ Vec3_eq(ret.val.right, Vec3_neg(r.val.right))

\* C11 witness: try_left_handed returned a value, with a right axis that is
\* not zero in any coordinate, for inputs that are neither unit length nor
\* perpendicular.
C11_Witness ==
    /\ op = "try_left_handed"
    /\ ret.some
    /\ Vec3_length_squared(args.up) # One
    /\ Vec3_dot(args.up, args.forward) # 0
    /\ ret.val.right.x # 0
    /\ ret.val.right.y # 0
    /\ ret.val.right.z # 0

====
